---- MODULE Spec2Model ----
(***************************************************************************)
(* The Plaid item store of boa-statement-parser (src/src/plaid/link.ts):   *)
(* FilePlaidItemStore, a Map of items mirrored to one JSON file, and the   *)
(* `plaid` CLI actions that drive it.  A process is one CLI invocation     *)
(* holding one store instance; the file is shared by all processes.        *)
(***************************************************************************)
EXTENDS Integers, Sequences, FiniteSets, TLC

\* ---------------------------------------------------------------- bounds
MaxClock == 1
MaxPage == 2
MaxFailures == 1
MaxInFlight == 2

\* ------------------------------------------------------------- universes
Procs == {"p1", "p2"}
ItemIds == {"i1", "i2"}
Tokens == {"t1", "t2"}
Statuses == {"active", "error"}
Times == 0..MaxClock

\* An optional field that is not set (syncCursor?, lastSyncAt?).
Undefined == -1
\* The empty string '' written by `sync --full`; cursors 1..MaxPage are the
\* provider's cursors, k standing for "pages 1..k consumed".
EmptyCursor == 0
Cursors == EmptyCursor..MaxPage

\* getItem's `?? null`.
Null == [isNull |-> TRUE]

\* A JSON value that is no item record (an array element, a character).
Junk == [junk |-> TRUE]

VARIABLES
    file,      \* content of the store file
    items,     \* items[p]: the Map of process p's store instance
    pc,        \* pc[p]: where process p is ("down" = not running)
    loc,       \* loc[p]: the locals of the CLI action process p is running
    exitCode,  \* exitCode[p]: status of p's last process.exit, -1 if none
    clock,     \* new Date()
    provider,  \* the provider's side: the items an exchange has linked
    lastOp,    \* history: the last store call that returned, with its arguments
    committed, \* history: committed[id] is the cursor the last completed
               \* store call left on item id
    failures   \* history: the number of writeFileSync calls that have failed

vars == <<file, items, pc, loc, exitCode, clock, provider, lastOp, committed,
          failures>>

\* ------------------------------------------------------------------ maps
EmptyMap == <<>>

\* Map.prototype.set
MapSet(m, k, v) == [x \in (DOMAIN m) \cup {k} |-> IF x = k THEN v ELSE m[x]]

\* Map.prototype.delete
MapDelete(m, k) == [x \in (DOMAIN m) \ {k} |-> m[x]]

\* Map.prototype.values, order dropped
MapValues(m) == {m[k] : k \in DOMAIN m}

\* ------------------------------------------------------------- the file
FileMissing == [kind |-> "missing", data |-> EmptyMap]
FileEmpty == [kind |-> "empty", data |-> EmptyMap]
FileGarbage == [kind |-> "garbage", data |-> EmptyMap]
FileNull == [kind |-> "null", data |-> EmptyMap]
FileArray(n) == [kind |-> "array", data |-> [i \in 1..n |-> Junk]]
FileString(n) == [kind |-> "string", data |-> [i \in 1..n |-> Junk]]
FileObject(m) == [kind |-> "object", data |-> m]

\* The property names Object.entries gives the elements of an array or the
\* characters of a string.
IndexKey == <<"0", "1">>

\* Mutant: only the items whose status is active are written.
JSONStringify_ActiveOnly(m) ==
    FileObject([k \in {x \in DOMAIN m : m[x].status = "active"} |-> m[k]])

\* Object.fromEntries(this.items) and JSON.stringify
JSONStringify(m) == FileObject(m)

\* load(): existsSync, readFileSync, JSON.parse, Object.entries; any throw is
\* caught and leaves an empty Map.
Load(f) ==
    CASE f.kind = "missing" -> EmptyMap
      [] f.kind \in {"empty", "garbage"} -> EmptyMap
      [] f.kind = "null" -> EmptyMap
      [] f.kind \in {"array", "string"} ->
            [k \in {IndexKey[i] : i \in DOMAIN f.data} |->
                f.data[CHOOSE i \in DOMAIN f.data : IndexKey[i] = k]]
      [] f.kind = "object" -> f.data

\* What writeFileSync can do: write the whole text, fail before touching the
\* file, or fail after truncating it.
WriteOutcomes == {"ok", "denied", "truncated"}

\* Mutant: save() reads the file back and merges the Map into it.
Save_MergeIntoFile(m, w) ==
    CASE w = "ok" ->
            JSONStringify([k \in (DOMAIN Load(file)) \cup (DOMAIN m) |->
                             IF k \in DOMAIN m THEN m[k] ELSE Load(file)[k]])
      [] w = "denied" -> file
      [] w = "truncated" -> FileEmpty

\* save(): the file after a write of Map m with outcome w.
Save(m, w) ==
    CASE w = "ok" -> JSONStringify(m)
      [] w = "denied" -> file
      [] w = "truncated" -> FileEmpty

\* ----------------------------------------------------------------- items
\* Mutant: link stores the item as already synced up to the empty cursor.
NewItem_Synced(itemId, accessToken, institutionId, now) ==
    [itemId |-> itemId, accessToken |-> accessToken,
     institutionId |-> institutionId, institutionName |-> "Sandbox Bank",
     userId |-> "u1", status |-> "active", syncCursor |-> EmptyCursor,
     lastSyncAt |-> now, createdAt |-> now, updatedAt |-> now]

\* The record the link action passes to saveItem at time `now`.
NewItem(itemId, accessToken, institutionId, now) ==
    [itemId |-> itemId, accessToken |-> accessToken,
     institutionId |-> institutionId, institutionName |-> "Sandbox Bank",
     userId |-> "u1", status |-> "active", syncCursor |-> Undefined,
     lastSyncAt |-> Undefined, createdAt |-> now, updatedAt |-> now]

\* The access token the provider issued with each item id.
TokenOf(itemId) == IF itemId = "i1" THEN "t1" ELSE "t2"

\* Records callers pass to saveItem: what an exchange returned.
LinkedItems(now) == {NewItem(i, TokenOf(i), "ins_1", now) : i \in ItemIds}

\* Partial<PlaidItem> values callers pass to updateItem directly.
StatusUpdates == {[status |-> s] : s \in Statuses}

\* Mutant: the spread is written the other way round, { ...updates, ...existing }.
Merge_ExistingWins(existing, updates, now) ==
    [f \in (DOMAIN existing) \cup (DOMAIN updates) \cup {"updatedAt"} |->
        IF f = "updatedAt" THEN now
        ELSE IF f \in DOMAIN existing THEN existing[f]
        ELSE updates[f]]

\* Mutant: the spread of the existing record leaves out its optional fields,
\* as a merge would that started from a copy read before they were written.
Merge_DropsOptional(existing, updates, now) ==
    [f \in (DOMAIN existing) \cup (DOMAIN updates) \cup {"updatedAt"} |->
        IF f = "updatedAt" THEN now
        ELSE IF f \in DOMAIN updates THEN updates[f]
        ELSE IF f \in {"syncCursor", "lastSyncAt"} THEN Undefined
        ELSE existing[f]]

\* { ...existing, ...updates, updatedAt: new Date().toISOString() }
Merge(existing, updates, now) ==
    [f \in (DOMAIN existing) \cup (DOMAIN updates) \cup {"updatedAt"} |->
        IF f = "updatedAt" THEN now
        ELSE IF f \in DOMAIN updates THEN updates[f]
        ELSE existing[f]]

\* ------------------------------------------------------- store: the reads
GetItemIn(m, itemId) == IF itemId \in DOMAIN m THEN m[itemId] ELSE Null

GetItem(p, itemId) == GetItemIn(items[p], itemId)

GetAllItems(p) == MapValues(items[p])

\* --------------------------------------- store: the Map after a mutation
\* Mutant: saveItem inserts but does not replace.
SaveItemMap_InsertOnly(m, item) ==
    IF item.itemId \in DOMAIN m THEN m ELSE MapSet(m, item.itemId, item)

SaveItemMap(m, item) == MapSet(m, item.itemId, item)

UpdateItemMap(m, itemId, updates, now) ==
    IF itemId \in DOMAIN m
    THEN MapSet(m, itemId, Merge(m[itemId], updates, now))
    ELSE m

\* Mutant: deleteItem empties the Map (this.items.clear()).
DeleteItemMap_Clear(m, itemId) == EmptyMap

DeleteItemMap(m, itemId) == MapDelete(m, itemId)

\* Mutant: updateItem changes the Map and forgets this.save().
UpdateItemSaves_Never(m, itemId) == FALSE

\* Mutant: this.save() sits after the `if`, not inside it.
UpdateItemSaves_Always(m, itemId) == TRUE

\* Whether the call reaches this.save(): updateItem saves only inside its
\* `existing !== undefined` branch.
UpdateItemSaves(m, itemId) == itemId \in DOMAIN m

CursorOf(m, itemId) ==
    IF itemId \in DOMAIN m /\ "syncCursor" \in DOMAIN m[itemId]
    THEN m[itemId].syncCursor ELSE Undefined

\* The cursor as the sync loop reads it: absent and '' both mean "from the
\* beginning".
CursorPos(m, itemId) ==
    IF CursorOf(m, itemId) = Undefined THEN 0 ELSE CursorOf(m, itemId)

\* Mutant: save() has no try/catch, a failed write throws to the caller.
SaveRaises_Rethrow(w) == w # "ok"

\* save()'s catch: whether a write with outcome w throws out of save().
SaveRaises(w) == FALSE

Op(name, arg) ==
    [op |-> name, proc |-> "", id |-> "", arg |-> arg, w |-> "none",
     existed |-> FALSE, raised |-> FALSE]

\* One store call of process p that leaves Map m, calling save() (with
\* outcome w) iff `saves`.
StoreCall(p, m, saves, w, id, op) ==
    /\ items' = [items EXCEPT ![p] = m]
    /\ file' = IF saves THEN Save(m, w) ELSE file
    /\ (saves /\ w # "ok") => failures < MaxFailures
    /\ (~saves) => w = "ok"
    /\ failures' = IF saves /\ w # "ok" THEN failures + 1 ELSE failures
    /\ committed' = IF saves /\ id \in ItemIds
                   THEN [committed EXCEPT ![id] = CursorOf(m, id)]
                   ELSE committed
    /\ lastOp' = [op EXCEPT !.proc = p, !.id = id,
                            !.w = IF saves THEN w ELSE "none",
                            !.existed = id \in DOMAIN items[p],
                            !.raised = saves /\ SaveRaises(w)]

\* What the caller of a store call does next: a call that throws ends a
\* process that does not catch it.
AfterCall(p, next) ==
    /\ pc' = [pc EXCEPT ![p] = IF lastOp'.raised THEN "down" ELSE next]
    /\ exitCode' = [exitCode EXCEPT ![p] = IF lastOp'.raised THEN 1 ELSE @]

NoLoc == [itemId |-> "", accessToken |-> "", institutionId |-> "",
          cursor |-> 0, page |-> 0, next |-> 0, exchanged |-> FALSE]

\* ------------------------------------------------------------------ Init
\* Before any process runs the file is whatever is at the path: nothing, an
\* empty file, text that is no JSON, or JSON of any shape.
InitFiles ==
    {FileMissing, FileEmpty, FileGarbage, FileNull, FileObject(EmptyMap),
     FileArray(0), FileArray(1), FileString(1)}

InitWith(files) ==
    /\ file \in files
    /\ items = [p \in Procs |-> EmptyMap]
    /\ pc = [p \in Procs |-> "new"]
    /\ loc = [p \in Procs |-> NoLoc]
    /\ exitCode = [p \in Procs |-> -1]
    /\ clock = 0
    /\ provider = {}
    /\ lastOp = Op("none", Null)
    /\ committed = [i \in ItemIds |-> Undefined]
    /\ failures = 0

\* ------------------------------------------------ process and store calls
\* Where the next statement of a process can be a store call that saves.
WritePoints == {"idle", "link_save", "sync_reset", "sync_commit",
                "remove_delete"}

\* new FilePlaidItemStore(): the first run of a process, or a later run.
Construct(p) ==
    /\ pc[p] \in {"new", "down"}
    /\ pc' = [pc EXCEPT ![p] = "idle"]
    /\ items' = [items EXCEPT ![p] = Load(file)]
    /\ loc' = [loc EXCEPT ![p] = NoLoc]
    /\ exitCode' = [exitCode EXCEPT ![p] = -1]
    /\ lastOp' = [Op(IF pc[p] = "new" THEN "construct" ELSE "restart", Null)
                    EXCEPT !.proc = p]
    /\ UNCHANGED <<file, clock, provider, committed, failures>>

\* The process is killed, or ends, between two steps.  While pc[p] is
\* "down", items[p] and loc[p] keep what the process held when it ended.
Crash(p) ==
    /\ pc[p] \notin {"new", "down"}
    /\ pc' = [pc EXCEPT ![p] = "down"]
    /\ UNCHANGED <<file, items, loc, exitCode, clock, provider, lastOp,
                   committed, failures>>

\* The process is killed inside writeFileSync, after the file was opened
\* (and so truncated) and before the text was written.
TornWrite(p) ==
    /\ pc[p] \in WritePoints
    /\ failures < MaxFailures
    /\ failures' = failures + 1
    /\ file' = FileEmpty
    /\ pc' = [pc EXCEPT ![p] = "down"]
    /\ lastOp' = [Op("torn", Null) EXCEPT !.proc = p]
    /\ UNCHANGED <<items, loc, exitCode, clock, provider, committed>>

Tick ==
    /\ clock < MaxClock
    /\ clock' = clock + 1
    /\ UNCHANGED <<file, items, pc, loc, exitCode, provider, lastOp,
                   committed, failures>>

SaveItem(p, item, w) ==
    /\ pc[p] = "idle"
    /\ StoreCall(p, SaveItemMap(items[p], item), TRUE, w, item.itemId,
                 Op("saveItem", item))
    /\ AfterCall(p, "idle")
    /\ UNCHANGED <<loc, clock, provider>>

UpdateItem(p, itemId, updates, w) ==
    /\ pc[p] = "idle"
    /\ StoreCall(p, UpdateItemMap(items[p], itemId, updates, clock),
                 UpdateItemSaves(items[p], itemId), w, itemId,
                 Op("updateItem", updates))
    /\ AfterCall(p, "idle")
    /\ UNCHANGED <<loc, clock, provider>>

\* Mutant: updateSyncCursor also puts the item back to active.
CursorUpdate_ResetsStatus(cursor, now) ==
    [syncCursor |-> cursor, lastSyncAt |-> now, status |-> "active"]

\* updateItem(itemId, { syncCursor: cursor, lastSyncAt: now })
CursorUpdate(cursor, now) == [syncCursor |-> cursor, lastSyncAt |-> now]

UpdateSyncCursor(p, itemId, cursor, w) ==
    /\ pc[p] = "idle"
    /\ StoreCall(p, UpdateItemMap(items[p], itemId,
                                  CursorUpdate(cursor, clock), clock),
                 UpdateItemSaves(items[p], itemId), w, itemId,
                 Op("updateSyncCursor", CursorUpdate(cursor, clock)))
    /\ AfterCall(p, "idle")
    /\ UNCHANGED <<loc, clock, provider>>

UpdateStatus(p, itemId, status, w) ==
    /\ pc[p] = "idle"
    /\ StoreCall(p, UpdateItemMap(items[p], itemId, [status |-> status], clock),
                 UpdateItemSaves(items[p], itemId), w, itemId,
                 Op("updateStatus", [status |-> status]))
    /\ AfterCall(p, "idle")
    /\ UNCHANGED <<loc, clock, provider>>

DeleteItem(p, itemId, w) ==
    /\ pc[p] = "idle"
    /\ StoreCall(p, DeleteItemMap(items[p], itemId), TRUE, w, itemId,
                 Op("deleteItem", Null))
    /\ AfterCall(p, "idle")
    /\ UNCHANGED <<loc, clock, provider>>

StoreCalls(p) ==
    \/ \E item \in LinkedItems(clock), w \in WriteOutcomes : SaveItem(p, item, w)
    \/ \E i \in ItemIds, u \in StatusUpdates, w \in WriteOutcomes :
          UpdateItem(p, i, u, w)
    \/ \E i \in ItemIds, c \in Cursors, w \in WriteOutcomes :
          UpdateSyncCursor(p, i, c, w)
    \/ \E i \in ItemIds, s \in Statuses, w \in WriteOutcomes :
          UpdateStatus(p, i, s, w)
    \/ \E i \in ItemIds, w \in WriteOutcomes : DeleteItem(p, i, w)

Solo == {"p1"}

Init == InitWith({FileMissing, FileObject(EmptyMap)})

Next ==
    \E p \in Solo : Construct(p) \/ Crash(p) \/ TornWrite(p) \/ StoreCalls(p)

Spec == Init /\ [][Next]_vars

\* ------------------------------------------------------- the CLI actions
\* process.exit(code), or the end of the action (code 0).
Exit(p, code) ==
    /\ pc' = [pc EXCEPT ![p] = "down"]
    /\ exitCode' = [exitCode EXCEPT ![p] = code]

\* A step of a CLI action that touches neither the store nor the provider.
NoStoreCall == UNCHANGED <<file, items, clock, provider, lastOp, committed, failures>>

\* `plaid link`: the --user-id check.
LinkBegin(p, userId) ==
    /\ pc[p] = "idle"
    /\ IF userId = ""
       THEN Exit(p, 1)
       ELSE pc' = [pc EXCEPT ![p] = "link_token"] /\ UNCHANGED exitCode
    /\ UNCHANGED loc
    /\ NoStoreCall

\* await createSandboxPublicToken(); a throw reaches the action's catch.
LinkCreateToken(p, ok) ==
    /\ pc[p] = "link_token"
    /\ IF ok
       THEN pc' = [pc EXCEPT ![p] = "link_exchange"] /\ UNCHANGED exitCode
       ELSE Exit(p, 1)
    /\ UNCHANGED loc
    /\ NoStoreCall

\* await exchangePublicToken(publicToken): the provider links a new item.
LinkExchange(p, ok, itemId) ==
    /\ pc[p] = "link_exchange"
    /\ IF ok
       THEN /\ itemId \notin provider
            /\ provider' = provider \cup {itemId}
            /\ loc' = [loc EXCEPT ![p] =
                          [NoLoc EXCEPT !.itemId = itemId,
                                        !.accessToken = TokenOf(itemId),
                                        !.exchanged = TRUE]]
            /\ pc' = [pc EXCEPT ![p] = "link_getitem"]
            /\ UNCHANGED exitCode
       ELSE /\ Exit(p, 1)
            /\ UNCHANGED <<provider, loc>>
    /\ UNCHANGED <<file, items, clock, lastOp, committed, failures>>

\* await getItem(exchangeResult.accessToken); institutionId ?? 'unknown'
LinkGetItem(p, ok, institutionId) ==
    /\ pc[p] = "link_getitem"
    /\ IF ok
       THEN /\ loc' = [loc EXCEPT ![p].institutionId = institutionId]
            /\ pc' = [pc EXCEPT ![p] = "link_accounts"]
            /\ UNCHANGED exitCode
       ELSE Exit(p, 1) /\ UNCHANGED loc
    /\ NoStoreCall

\* await getAccounts(exchangeResult.accessToken)
LinkGetAccounts(p, ok) ==
    /\ pc[p] = "link_accounts"
    /\ IF ok
       THEN pc' = [pc EXCEPT ![p] = "link_save"] /\ UNCHANGED exitCode
       ELSE Exit(p, 1)
    /\ UNCHANGED loc
    /\ NoStoreCall

\* await store.saveItem({...}); the action ends.
LinkSave(p, w) ==
    /\ pc[p] = "link_save"
    /\ StoreCall(p,
                 SaveItemMap(items[p],
                             NewItem(loc[p].itemId, loc[p].accessToken,
                                     loc[p].institutionId, clock)),
                 TRUE, w, loc[p].itemId,
                 Op("saveItem", NewItem(loc[p].itemId, loc[p].accessToken,
                                        loc[p].institutionId, clock)))
    /\ Exit(p, IF lastOp'.raised THEN 1 ELSE 0)
    /\ UNCHANGED <<loc, clock, provider>>

\* `plaid sync`: the --item-id check and the --full branch.
SyncBegin(p, itemId, full) ==
    /\ pc[p] = "idle"
    /\ IF itemId = ""
       THEN Exit(p, 1) /\ UNCHANGED loc
       ELSE /\ loc' = [loc EXCEPT ![p] = [NoLoc EXCEPT !.itemId = itemId]]
            /\ pc' = [pc EXCEPT ![p] = IF full THEN "sync_reset" ELSE "sync_read"]
            /\ UNCHANGED exitCode
    /\ NoStoreCall

\* await store.updateSyncCursor(options.itemId, '')
SyncReset(p, w) ==
    /\ pc[p] = "sync_reset"
    /\ StoreCall(p, UpdateItemMap(items[p], loc[p].itemId,
                                  CursorUpdate(EmptyCursor, clock), clock),
                 UpdateItemSaves(items[p], loc[p].itemId), w, loc[p].itemId,
                 Op("updateSyncCursor", CursorUpdate(EmptyCursor, clock)))
    /\ AfterCall(p, "sync_read")
    /\ UNCHANGED <<loc, clock, provider>>

\* syncItemTransactions: the item and its cursor are read from the store; an
\* unknown item is an error.
SyncRead(p) ==
    /\ pc[p] = "sync_read"
    /\ IF GetItem(p, loc[p].itemId) = Null
       THEN Exit(p, 1) /\ UNCHANGED loc
       ELSE /\ loc' = [loc EXCEPT ![p].cursor = CursorPos(items[p], loc[p].itemId)]
            /\ pc' = [pc EXCEPT ![p] = "sync_fetch"]
            /\ UNCHANGED exitCode
    /\ NoStoreCall

\* syncItemTransactions: one page is fetched from the provider at the
\* cursor and handed to the batch callback; past the last page the provider
\* answers with no data and the same cursor.
SyncFetch(p, ok) ==
    /\ pc[p] = "sync_fetch"
    /\ IF ~ok
       THEN Exit(p, 1) /\ UNCHANGED loc
       ELSE /\ loc' = [loc EXCEPT
                        ![p].page = IF loc[p].cursor < MaxPage
                                    THEN loc[p].cursor + 1 ELSE 0,
                        ![p].next = IF loc[p].cursor < MaxPage
                                    THEN loc[p].cursor + 1 ELSE loc[p].cursor]
            /\ pc' = [pc EXCEPT ![p] = "sync_commit"]
            /\ UNCHANGED exitCode
    /\ NoStoreCall

\* syncItemTransactions: updateSyncCursor after the page was processed; the
\* loop goes on while the provider has more pages.
SyncCommit(p, w) ==
    /\ pc[p] = "sync_commit"
    /\ StoreCall(p, UpdateItemMap(items[p], loc[p].itemId,
                                  CursorUpdate(loc[p].next, clock), clock),
                 UpdateItemSaves(items[p], loc[p].itemId), w, loc[p].itemId,
                 Op("updateSyncCursor", CursorUpdate(loc[p].next, clock)))
    /\ loc' = [loc EXCEPT ![p].cursor = loc[p].next, ![p].page = 0]
    /\ IF lastOp'.raised THEN Exit(p, 1)
       ELSE IF loc[p].next < MaxPage
       THEN pc' = [pc EXCEPT ![p] = "sync_fetch"] /\ UNCHANGED exitCode
       ELSE Exit(p, 0)
    /\ UNCHANGED <<clock, provider>>

LinkAction(p) ==
    \/ \E u \in {"", "u1"} : LinkBegin(p, u)
    \/ \E ok \in BOOLEAN : LinkCreateToken(p, ok)
    \/ \E ok \in BOOLEAN, i \in ItemIds : LinkExchange(p, ok, i)
    \/ \E ok \in BOOLEAN, inst \in {"ins_1", "unknown"} : LinkGetItem(p, ok, inst)
    \/ \E ok \in BOOLEAN : LinkGetAccounts(p, ok)
    \/ \E w \in WriteOutcomes : LinkSave(p, w)

SyncAction(p) ==
    \/ \E i \in ItemIds \cup {""}, full \in BOOLEAN : SyncBegin(p, i, full)
    \/ \E w \in WriteOutcomes : SyncReset(p, w)
    \/ SyncRead(p)
    \/ \E ok \in BOOLEAN : SyncFetch(p, ok)
    \/ \E w \in WriteOutcomes : SyncCommit(p, w)

\* One CLI invocation after another: link and sync runs, killed anywhere.
NextCli ==
    \/ Tick
    \/ \E p \in Solo :
          Construct(p) \/ Crash(p) \/ TornWrite(p) \/ LinkAction(p) \/ SyncAction(p)

SpecCli == Init /\ [][NextCli]_vars

\* Store files of every shape, then the store calls of one process.
InitLoad == InitWith(InitFiles)

SpecLoad == InitLoad /\ [][Next]_vars

\* Two CLI invocations alive at once on the same file, every write succeeding.
NextTwo ==
    \E p \in Procs :
        \/ Construct(p)
        \/ Crash(p)
        \/ \E item \in LinkedItems(clock) : SaveItem(p, item, "ok")
        \/ \E i \in ItemIds, c \in Cursors : UpdateSyncCursor(p, i, c, "ok")
        \/ \E i \in ItemIds : DeleteItem(p, i, "ok")

SpecTwo == Init /\ [][NextTwo]_vars

\* ---------------------------------------------------- the `remove` action
\* removeItem(accessToken): the provider invalidates the token of the item
\* it issued the token with.
ProviderRemove(prov, accessToken) ==
    prov \ {i \in ItemIds : TokenOf(i) = accessToken}

\* `plaid remove`: the --item-id check.
RemoveBegin(p, itemId) ==
    /\ pc[p] = "idle"
    /\ IF itemId = ""
       THEN Exit(p, 1) /\ UNCHANGED loc
       ELSE /\ loc' = [loc EXCEPT ![p] = [NoLoc EXCEPT !.itemId = itemId]]
            /\ pc' = [pc EXCEPT ![p] = "remove_get"]
            /\ UNCHANGED exitCode
    /\ NoStoreCall

\* const removeItemData = await store.getItem(options.itemId); null exits 1.
RemoveGet(p) ==
    /\ pc[p] = "remove_get"
    /\ IF GetItem(p, loc[p].itemId) = Null
       THEN Exit(p, 1) /\ UNCHANGED loc
       ELSE /\ loc' = [loc EXCEPT ![p].accessToken =
                          GetItem(p, loc[p].itemId).accessToken]
            /\ pc' = [pc EXCEPT ![p] = "remove_provider"]
            /\ UNCHANGED exitCode
    /\ NoStoreCall

\* Mutant: the local record is deleted before the provider is asked, so a
\* failed removeItem leaves the store without the item.
RemoveProvider_DeletesFirst(p, ok) ==
    /\ pc[p] = "remove_provider"
    /\ items' = [items EXCEPT ![p] = DeleteItemMap(items[p], loc[p].itemId)]
    /\ file' = Save(DeleteItemMap(items[p], loc[p].itemId), "ok")
    /\ IF ok
       THEN /\ \E i \in provider : TokenOf(i) = loc[p].accessToken
            /\ provider' = ProviderRemove(provider, loc[p].accessToken)
            /\ pc' = [pc EXCEPT ![p] = "remove_delete"]
            /\ UNCHANGED exitCode
       ELSE Exit(p, 1) /\ UNCHANGED provider
    /\ UNCHANGED <<loc, clock, lastOp, committed, failures>>

\* await removeItem(removeItemData.accessToken); the provider rejects a token
\* it no longer knows, and a throw reaches the action's catch.
RemoveProvider(p, ok) ==
    /\ pc[p] = "remove_provider"
    /\ IF ok
       THEN /\ \E i \in provider : TokenOf(i) = loc[p].accessToken
            /\ provider' = ProviderRemove(provider, loc[p].accessToken)
            /\ pc' = [pc EXCEPT ![p] = "remove_delete"]
            /\ UNCHANGED exitCode
       ELSE Exit(p, 1) /\ UNCHANGED provider
    /\ UNCHANGED <<file, items, loc, clock, lastOp, committed, failures>>

\* await store.deleteItem(options.itemId); '[SUCCESS] Item removed'.
RemoveDelete(p, w) ==
    /\ pc[p] = "remove_delete"
    /\ StoreCall(p, DeleteItemMap(items[p], loc[p].itemId), TRUE, w,
                 loc[p].itemId, Op("deleteItem", Null))
    /\ Exit(p, IF lastOp'.raised THEN 1 ELSE 0)
    /\ UNCHANGED <<loc, clock, provider>>

RemoveAction(p) ==
    \/ \E i \in ItemIds \cup {""} : RemoveBegin(p, i)
    \/ RemoveGet(p)
    \/ \E ok \in BOOLEAN : RemoveProvider(p, ok)
    \/ \E w \in WriteOutcomes : RemoveDelete(p, w)

\* One CLI invocation after another: link and remove runs, killed anywhere.
NextLink ==
    \E p \in Solo :
        Construct(p) \/ Crash(p) \/ TornWrite(p) \/ LinkAction(p) \/ RemoveAction(p)

SpecLink == Init /\ [][NextLink]_vars

\* ------------------------------------------- store calls with any fields
\* The item the field-level runs follow.
OneItem == {"i1"}

\* PlaidItem values a caller can pass to saveItem at time `now`: any token,
\* and an updatedAt the caller filled in at `now` or earlier.
CallerItems(now) ==
    {[NewItem(i, t, "ins_1", now) EXCEPT !.updatedAt = u] :
        i \in OneItem, t \in Tokens, u \in 0..now}

\* Partial<PlaidItem> values a caller can pass to updateItem: every field
\* of the record is optional in the type, the identifying ones included.
Partials ==
    StatusUpdates
        \cup {[accessToken |-> t] : t \in Tokens}
        \cup {[createdAt |-> c] : c \in Times}
        \cup {[updatedAt |-> c] : c \in Times}

\* One process, every write succeeding, the clock running.
NextFields ==
    \/ Tick
    \/ \E p \in Solo :
          \/ Construct(p)
          \/ Crash(p)
          \/ \E item \in CallerItems(clock) : SaveItem(p, item, "ok")
          \/ \E i \in OneItem, u \in Partials : UpdateItem(p, i, u, "ok")
          \/ \E i \in OneItem, c \in Cursors : UpdateSyncCursor(p, i, c, "ok")
          \/ \E i \in OneItem, st \in Statuses : UpdateStatus(p, i, st, "ok")
          \/ \E i \in OneItem : DeleteItem(p, i, "ok")

SpecFields == Init /\ [][NextFields]_vars

\* Partial<PlaidItem> values that carry an itemId.
IdUpdates == {[itemId |-> j] : j \in ItemIds}

\* One process, every write succeeding, updateItem called with an itemId
\* among the updates.
NextIds ==
    \E p \in Solo :
        \/ Construct(p)
        \/ Crash(p)
        \/ \E item \in LinkedItems(clock) : SaveItem(p, item, "ok")
        \/ \E i \in ItemIds, u \in IdUpdates : UpdateItem(p, i, u, "ok")
        \/ \E i \in ItemIds : DeleteItem(p, i, "ok")

SpecIds == Init /\ [][NextIds]_vars

\* ------------------------------------------- store: the reads by a field
\* What a call can end in besides a value: a thrown TypeError.
Raise == [raise |-> TRUE]

\* The owners the CLI's --user-id can name.
Users == {"u1", "u2"}

\* `v.f === x` for a Map value v that is not null: a value without the
\* property reads as undefined, which equals no string.  On null the read
\* throws, which the callers below test first.
FieldIs(v, f, x) == v # Null /\ f \in DOMAIN v /\ v[f] = x

\* Mutant: the loop compares item.itemId with the token.
GetItemByAccessToken_ByItemId(m, accessToken) ==
    IF \E k \in DOMAIN m : m[k] = Null THEN {Raise}
    ELSE {m[k] : k \in {x \in DOMAIN m : FieldIs(m[x], "itemId", accessToken)}}
            \cup (IF \E k \in DOMAIN m : FieldIs(m[k], "itemId", accessToken)
                  THEN {} ELSE {Null})

\* getItemByAccessToken: the loop over this.items.values() returns the first
\* value whose accessToken matches and null after the last one; the Map's
\* iteration order is not kept here, so this is the set of results over the
\* orders: any matching value, a throw if a null value can come before the
\* first match, null if nothing matches and nothing throws.
GetItemByAccessToken(m, accessToken) ==
    {m[k] : k \in {x \in DOMAIN m : FieldIs(m[x], "accessToken", accessToken)}}
        \cup (IF \E k \in DOMAIN m : m[k] = Null THEN {Raise} ELSE {})
        \cup (IF \E k \in DOMAIN m :
                    m[k] = Null \/ FieldIs(m[k], "accessToken", accessToken)
              THEN {} ELSE {Null})

\* getItemsByUserId: the loop reads item.userId of every value; the result
\* array is kept as a set.
GetItemsByUserId(m, userId) ==
    IF \E k \in DOMAIN m : m[k] = Null THEN Raise
    ELSE {m[k] : k \in {x \in DOMAIN m : FieldIs(m[x], "userId", userId)}}

\* PlaidItem values of any owner and token.
OwnedItems(now) ==
    {[NewItem(i, t, "ins_1", now) EXCEPT !.userId = u] :
        i \in ItemIds, t \in Tokens, u \in Users}

\* One process, every write succeeding, items of any owner and token.
NextReads ==
    \E p \in Solo :
        \/ Construct(p)
        \/ Crash(p)
        \/ \E item \in OwnedItems(clock) : SaveItem(p, item, "ok")
        \/ \E i \in ItemIds, st \in Statuses : UpdateStatus(p, i, st, "ok")
        \/ \E i \in ItemIds : DeleteItem(p, i, "ok")

SpecReads == Init /\ [][NextReads]_vars

\* The JSON text of an array of n nulls.
FileNulls(n) == [kind |-> "array", data |-> [i \in 1..n |-> Null]]

\* The same calls on a store constructed on a file of any shape.
InitReadsLoad == InitWith(InitFiles \cup {FileNulls(1)})

SpecReadsLoad == InitReadsLoad /\ [][NextReads]_vars

\* --------------------------------------- the command and its item actions
\* The locals of a run that found no Plaid credentials.
Unconfigured == [configured |-> FALSE]

\* Mutant: the configuration check sits after the switch, the action runs
\* first.
PlaidCommand_ChecksLate(p, configured) ==
    /\ pc[p] \in {"new", "down"}
    /\ items' = [items EXCEPT ![p] = Load(file)]
    /\ loc' = [loc EXCEPT ![p] = IF configured THEN NoLoc ELSE Unconfigured]
    /\ pc' = [pc EXCEPT ![p] = "idle"]
    /\ exitCode' = [exitCode EXCEPT ![p] = -1]
    /\ lastOp' = [Op(IF pc[p] = "new" THEN "construct" ELSE "restart", Null)
                    EXCEPT !.proc = p]
    /\ UNCHANGED <<file, clock, provider, committed, failures>>

\* The start of every `plaid` run: getFilePlaidItemStore() constructs the
\* store of the process, then `if (!isPlaidConfigured()) process.exit(1)`.
PlaidCommand(p, configured) ==
    /\ pc[p] \in {"new", "down"}
    /\ items' = [items EXCEPT ![p] = Load(file)]
    /\ loc' = [loc EXCEPT ![p] = IF configured THEN NoLoc ELSE Unconfigured]
    /\ pc' = [pc EXCEPT ![p] = IF configured THEN "idle" ELSE "down"]
    /\ exitCode' = [exitCode EXCEPT ![p] = IF configured THEN -1 ELSE 1]
    /\ lastOp' = [Op(IF pc[p] = "new" THEN "construct" ELSE "restart", Null)
                    EXCEPT !.proc = p]
    /\ UNCHANGED <<file, clock, provider, committed, failures>>

\* The actions that read one item and ask the provider about it.
ItemActions == {"status", "identity", "auth", "liabilities", "holdings"}

\* `plaid status|identity|auth|liabilities|holdings`: the --item-id check.
ItemBegin(p, action, itemId) ==
    /\ pc[p] = "idle"
    /\ action \in ItemActions
    /\ IF itemId = ""
       THEN Exit(p, 1) /\ UNCHANGED loc
       ELSE /\ loc' = [loc EXCEPT ![p] = [NoLoc EXCEPT !.itemId = itemId]]
            /\ pc' = [pc EXCEPT ![p] = "item_get"]
            /\ UNCHANGED exitCode
    /\ NoStoreCall

\* Mutant: the `item === null` check is missing.
ItemGet_NoCheck(p) ==
    /\ pc[p] = "item_get"
    /\ pc' = [pc EXCEPT ![p] = "item_fetch"]
    /\ UNCHANGED <<loc, exitCode>>
    /\ NoStoreCall

\* const item = await store.getItem(options.itemId); null exits 1.
ItemGet(p) ==
    /\ pc[p] = "item_get"
    /\ IF GetItem(p, loc[p].itemId) = Null
       THEN Exit(p, 1) /\ UNCHANGED loc
       ELSE /\ loc' = [loc EXCEPT ![p].accessToken =
                          GetItem(p, loc[p].itemId).accessToken]
            /\ pc' = [pc EXCEPT ![p] = "item_fetch"]
            /\ UNCHANGED exitCode
    /\ NoStoreCall

\* await getItem|getIdentity|getAuth|getLiabilities|getHoldings(accessToken):
\* the call to the provider, recorded in lastOp; the report is printed and
\* the action ends, or a throw reaches the action's catch.
ItemFetch(p, ok) ==
    /\ pc[p] = "item_fetch"
    /\ Exit(p, IF ok THEN 0 ELSE 1)
    /\ lastOp' = [Op("gateway", Null) EXCEPT !.proc = p, !.id = loc[p].itemId]
    /\ UNCHANGED <<file, items, loc, clock, provider, committed, failures>>

ItemAction(p) ==
    \/ \E a \in ItemActions, i \in ItemIds \cup {""} : ItemBegin(p, a, i)
    \/ ItemGet(p)
    \/ \E ok \in BOOLEAN : ItemFetch(p, ok)

\* One `plaid` run after another, with or without credentials.
NextPlaid ==
    \E p \in Solo :
        \/ \E configured \in BOOLEAN : PlaidCommand(p, configured)
        \/ Crash(p)
        \/ LinkAction(p)
        \/ RemoveAction(p)
        \/ ItemAction(p)

SpecPlaid == Init /\ [][NextPlaid]_vars

\* -------------------------------------------------------- createLinkToken
\* An optional value: {} is undefined, {v} is the value v.
Optional(values) == {{}} \cup {{v} : v \in values}

\* a ?? b on optional values.
Coalesce(a, b) == IF a # {} THEN a ELSE b

\* CreateLinkTokenOptions as callers can fill it.
LinkTokenOptions ==
    [userId : {"u1"},
     products : Optional({<<"transactions">>, <<"auth", "transactions">>}),
     countryCodes : Optional({<<"US">>, <<"CA">>}),
     language : Optional({"en", "es"}),
     webhookUrl : Optional({"", "opt-hook"}),
     redirectUri : Optional({"opt-redirect"}),
     accessToken : Optional({"t1"})]

\* getPlaidConfig(): the process-wide configuration.
PlaidConfigs ==
    [webhookUrl : Optional({"cfg-hook"}),
     redirectUri : Optional({"cfg-redirect"})]

\* A key of the request that a conditional spread adds or leaves out.
SpreadIf(cond, v) == [present |-> cond, value |-> IF cond THEN v ELSE {}]

\* Mutant: the process-wide webhook and redirect URI win over the call-site
\* ones.
LinkTokenRequest_ConfigWins(options, config) ==
    [client_user_id |-> options.userId,
     client_name |-> "BOA Statement Parser",
     products |-> Coalesce(options.products, {<<"transactions">>}),
     country_codes |-> Coalesce(options.countryCodes, {<<"US">>}),
     language |-> Coalesce(options.language, {"en"}),
     webhook |-> SpreadIf(options.webhookUrl # {} \/ config.webhookUrl # {},
                          Coalesce(config.webhookUrl, options.webhookUrl)),
     redirect_uri |-> SpreadIf(options.redirectUri # {} \/ config.redirectUri # {},
                               Coalesce(config.redirectUri, options.redirectUri)),
     access_token |-> SpreadIf(options.accessToken # {}, options.accessToken)]

\* The request createLinkToken hands to client.linkTokenCreate.
LinkTokenRequest(options, config) ==
    [client_user_id |-> options.userId,
     client_name |-> "BOA Statement Parser",
     products |-> Coalesce(options.products, {<<"transactions">>}),
     country_codes |-> Coalesce(options.countryCodes, {<<"US">>}),
     language |-> Coalesce(options.language, {"en"}),
     webhook |-> SpreadIf(options.webhookUrl # {} \/ config.webhookUrl # {},
                          Coalesce(options.webhookUrl, config.webhookUrl)),
     redirect_uri |-> SpreadIf(options.redirectUri # {} \/ config.redirectUri # {},
                               Coalesce(options.redirectUri, config.redirectUri)),
     access_token |-> SpreadIf(options.accessToken # {}, options.accessToken)]

\* createLinkToken(options) in a process whose configuration is config, up
\* to `await client.linkTokenCreate(request)`: the call's inputs are kept in
\* loc, the request it sent in lastOp.
CreateLinkToken(p, options, config) ==
    /\ pc[p] = "idle"
    /\ pc' = [pc EXCEPT ![p] = "link_token_create"]
    /\ loc' = [loc EXCEPT ![p] = [options |-> options, config |-> config]]
    /\ lastOp' = [Op("createLinkToken", LinkTokenRequest(options, config))
                    EXCEPT !.proc = p]
    /\ UNCHANGED <<file, items, exitCode, clock, provider, committed, failures>>

\* The provider's answer: createLinkToken returns the token or throws.
LinkTokenCreated(p, ok) ==
    /\ pc[p] = "link_token_create"
    /\ pc' = [pc EXCEPT ![p] = "idle"]
    /\ loc' = [loc EXCEPT ![p] = NoLoc]
    /\ lastOp' = [Op("linkTokenCreate", Null) EXCEPT !.proc = p, !.raised = ~ok]
    /\ UNCHANGED <<file, items, exitCode, clock, provider, committed, failures>>

NextLinkToken ==
    \E p \in Solo :
        \/ Construct(p)
        \/ \E o \in LinkTokenOptions, c \in PlaidConfigs : CreateLinkToken(p, o, c)
        \/ \E ok \in BOOLEAN : LinkTokenCreated(p, ok)

SpecLinkToken == Init /\ [][NextLinkToken]_vars

\* ------------------------------------ async calls in flight on one store
\* The store calls of process p whose promise has not settled yet, in the
\* order they were made.
Pending(p) == IF "pending" \in DOMAIN loc[p] THEN loc[p].pending ELSE <<>>

\* An async update method called without awaiting the calls made before it.
\* updateItem has no await in its body, so get, set and save() all run
\* inside the call, before the caller gets the promise; updateSyncCursor and
\* updateStatus reach their only await after updateItem's body has run.
InFlightCall(p, itemId, updates, op) ==
    /\ Len(Pending(p)) < MaxInFlight
    /\ StoreCall(p, UpdateItemMap(items[p], itemId, updates, clock),
                 UpdateItemSaves(items[p], itemId), "ok", itemId,
                 Op(op, updates))
    /\ loc' = [loc EXCEPT ![p] = [pending |-> Append(Pending(p), lastOp')]]
    /\ UNCHANGED <<pc, exitCode, clock, provider>>

AsyncUpdateItem(p, itemId, updates) ==
    /\ pc[p] = "idle"
    /\ InFlightCall(p, itemId, updates, "updateItem")

AsyncUpdateSyncCursor(p, itemId, cursor) ==
    /\ pc[p] = "idle"
    /\ InFlightCall(p, itemId, CursorUpdate(cursor, clock), "updateSyncCursor")

AsyncUpdateStatus(p, itemId, status) ==
    /\ pc[p] = "idle"
    /\ InFlightCall(p, itemId, [status |-> status], "updateStatus")

\* The oldest promise settles and its awaiting caller goes on.
Settle(p) ==
    /\ pc[p] = "idle"
    /\ Pending(p) # <<>>
    /\ loc' = [loc EXCEPT ![p] = [pending |-> Tail(Pending(p))]]
    /\ UNCHANGED <<file, items, pc, exitCode, clock, provider, lastOp,
                   committed, failures>>

\* One process whose callers do not wait for each other.
NextAsync ==
    \E p \in Solo :
        \/ Construct(p)
        \/ \E item \in LinkedItems(clock) :
              item.itemId \in OneItem /\ Pending(p) = <<>> /\ SaveItem(p, item, "ok")
        \/ \E i \in OneItem, u \in StatusUpdates : AsyncUpdateItem(p, i, u)
        \/ \E i \in OneItem, c \in Cursors : AsyncUpdateSyncCursor(p, i, c)
        \/ \E i \in OneItem, st \in Statuses : AsyncUpdateStatus(p, i, st)
        \/ Settle(p)

SpecAsync == Init /\ [][NextAsync]_vars

\* ------------------------------------------- the process-wide file store
MaxStores == 3

DefaultStorePath == "~/.boa-parser/plaid-items.json"
OtherStorePath == "./other-items.json"
StorePaths == {DefaultStorePath, OtherStorePath}

\* The file at OtherStorePath: it holds one item and nothing writes it here.
OtherFile == FileObject(SaveItemMap(EmptyMap, NewItem("i2", TokenOf("i2"), "ins_1", 0)))

FileAt(path) == IF path = DefaultStorePath THEN file ELSE OtherFile

\* The module's state: defaultFileStore (Null, or the instance, named by its
\* path and by the number of the constructor call that made it), the number
\* of constructor calls so far, what the last call of getFilePlaidItemStore
\* returned, and which of the two functions was called last.
ModuleState(store, constructed, returned, lastCall) ==
    [defaultFileStore |-> store, constructed |-> constructed,
     returned |-> returned, lastCall |-> lastCall]

StoreInstance(path, serial) == [filePath |-> path, serial |-> serial]

\* Mutant: any difference from the current path, a missing path included,
\* constructs a new store.
NeedsNewStore_AnyDifference(store, filePath) ==
    store = Null \/ filePath # {store.filePath}

\* The condition of getFilePlaidItemStore's if; filePath is {} for a call
\* without the argument.
NeedsNewStore(store, filePath) ==
    store = Null \/ (filePath # {} /\ filePath # {store.filePath})

\* constructor(filePath = DEFAULT_STORE_PATH)
ConstructorPath(filePath) ==
    IF filePath = {} THEN DefaultStorePath ELSE CHOOSE x \in filePath : TRUE

InitSingleton ==
    /\ file \in {FileMissing, FileObject(EmptyMap)}
    /\ items = [p \in Procs |-> EmptyMap]
    /\ pc = [p \in Procs |-> IF p \in Solo THEN "idle" ELSE "new"]
    /\ loc = [p \in Procs |-> IF p \in Solo
                              THEN ModuleState(Null, 0, Null, "none")
                              ELSE NoLoc]
    /\ exitCode = [p \in Procs |-> -1]
    /\ clock = 0
    /\ provider = {}
    /\ lastOp = Op("none", Null)
    /\ committed = [i \in ItemIds |-> Undefined]
    /\ failures = 0

GetFilePlaidItemStore(p, filePath) ==
    /\ pc[p] = "idle"
    /\ LET m == loc[p]
           fresh == StoreInstance(ConstructorPath(filePath), m.constructed + 1)
       IN  IF NeedsNewStore(m.defaultFileStore, filePath)
           THEN /\ m.constructed < MaxStores
                /\ items' = [items EXCEPT ![p] = Load(FileAt(fresh.filePath))]
                /\ loc' = [loc EXCEPT ![p] =
                             ModuleState(fresh, fresh.serial, fresh, "get")]
           ELSE /\ items' = items
                /\ loc' = [loc EXCEPT ![p] =
                             ModuleState(m.defaultFileStore, m.constructed,
                                         m.defaultFileStore, "get")]
    /\ lastOp' = [Op("getFilePlaidItemStore", filePath) EXCEPT !.proc = p]
    /\ UNCHANGED <<file, pc, exitCode, clock, provider, committed, failures>>

ResetFilePlaidItemStore(p) ==
    /\ pc[p] = "idle"
    /\ loc' = [loc EXCEPT ![p] =
                 ModuleState(Null, loc[p].constructed, loc[p].returned, "reset")]
    /\ lastOp' = [Op("resetFilePlaidItemStore", Null) EXCEPT !.proc = p]
    /\ UNCHANGED <<file, items, pc, exitCode, clock, provider, committed,
                   failures>>

\* A process that takes its store from getFilePlaidItemStore and calls it,
\* while another process writes the file at the default path.
NextSingleton ==
    \/ \E p \in Solo :
          \/ \E filePath \in Optional(StorePaths) : GetFilePlaidItemStore(p, filePath)
          \/ ResetFilePlaidItemStore(p)
          \/ \E item \in LinkedItems(clock) :
                /\ item.itemId \in OneItem
                /\ loc[p].defaultFileStore # Null
                /\ loc[p].defaultFileStore.filePath = DefaultStorePath
                /\ SaveItem(p, item, "ok")
    \/ \E p \in Procs \ Solo :
          \/ Construct(p)
          \/ \E item \in LinkedItems(clock) :
                item.itemId \in OneItem /\ SaveItem(p, item, "ok")
          \/ \E i \in OneItem : DeleteItem(p, i, "ok")

SpecSingleton == InitSingleton /\ [][NextSingleton]_vars

\* ======================================================== the claims, Spec
Mutators == {"saveItem", "updateItem", "updateSyncCursor", "updateStatus",
             "deleteItem"}
Updaters == {"updateItem", "updateSyncCursor", "updateStatus"}

\* The record `got` carries every field of the partial record `want`.
Carries(got, want) ==
    \A f \in DOMAIN want : f \in DOMAIN got /\ got[f] = want[f]

\* What a read of the item named by the last store call must return for the
\* call's effect to be visible in process p.
EffectVisible(p) ==
    CASE lastOp.op = "saveItem" -> GetItem(p, lastOp.id) = lastOp.arg
      [] lastOp.op = "deleteItem" ->
            /\ GetItem(p, lastOp.id) = Null
            /\ \A it \in GetAllItems(p) : it.itemId # lastOp.id
      [] lastOp.op \in Updaters /\ lastOp.existed ->
            /\ GetItem(p, lastOp.id) # Null
            /\ Carries(GetItem(p, lastOp.id), lastOp.arg)
      [] lastOp.op \in Updaters /\ ~lastOp.existed ->
            GetItem(p, lastOp.id) = Null
      [] OTHER -> TRUE

\* C1 (as claimed): whenever saveItem has returned, the store file holds a
\* record for item.itemId equal to the saved item, failed writes included.
C1_SaveItemDurable ==
    lastOp.op = "saveItem" =>
        GetItemIn(Load(file), lastOp.id) = lastOp.arg

C3_GetAfterSave ==
    \A p \in Procs :
        (lastOp.op = "saveItem" /\ lastOp.proc = p)
            => GetItem(p, lastOp.id) = lastOp.arg

C3_Witness ==
    /\ lastOp.op = "saveItem" /\ lastOp.existed /\ pc[lastOp.proc] = "idle"
    /\ GetItem(lastOp.proc, lastOp.id) = lastOp.arg

\* C5 (as claimed): the cursor a store shows for an item never goes back,
\* across store calls, failed writes and restarts, unless a store call on
\* that very item sets it (an explicit reset or replacement).
C5_CursorNeverRolledBack ==
    [][\A p \in Procs, i \in ItemIds :
          \/ CursorPos(items'[p], i) >= CursorPos(items[p], i)
          \/ /\ lastOp' # lastOp
             /\ lastOp'.op \in Mutators /\ lastOp'.id = i]_vars

\* C6: a store call whose file write failed returns normally, and reads on
\* the same instance show the mutation although the file does not.
C6_FailedWriteKeepsMemory ==
    \A p \in Procs :
        (lastOp.proc = p /\ lastOp.op \in Mutators /\ lastOp.w \notin {"ok", "none"})
            => /\ ~lastOp.raised
               /\ pc[p] # "down" => pc[p] = "idle"
               /\ EffectVisible(p)

C6_Witness ==
    /\ lastOp.op = "updateSyncCursor" /\ lastOp.w = "denied"
    /\ pc[lastOp.proc] = "idle"
    /\ CursorOf(items[lastOp.proc], lastOp.id) = lastOp.arg.syncCursor
    /\ CursorOf(Load(file), lastOp.id) # lastOp.arg.syncCursor

\* C8: read-your-writes within a process.  After any mutating store call,
\* failed write or not, the reads of that process show the call's effect.
C8_ReadYourWrites ==
    \A p \in Procs :
        (lastOp.proc = p /\ lastOp.op \in Mutators) => EffectVisible(p)

C8_Witness ==
    /\ lastOp.op = "updateStatus" /\ lastOp.existed
    /\ pc[lastOp.proc] = "idle"
    /\ GetItem(lastOp.proc, lastOp.id).status = "error"
    /\ CursorOf(items[lastOp.proc], lastOp.id) > EmptyCursor

\* ===================================================== the claims, SpecCli
CommittedPos(itemId) ==
    IF committed[itemId] = Undefined THEN 0 ELSE committed[itemId]

\* C4 (as claimed): crash-resume of the sync loop.  A restarted process
\* reads from the store the cursor of the last page whose updateSyncCursor
\* completed, and every page handed to the sync callback is the one right
\* after that cursor: no committed page again, no page skipped.
C4_CrashResume ==
    \A p \in Procs :
        /\ (lastOp.op = "restart" /\ lastOp.proc = p)
              => \A i \in ItemIds : CursorPos(items[p], i) = CommittedPos(i)
        /\ (pc[p] = "sync_commit" /\ loc[p].page > 0)
              => loc[p].page = CommittedPos(loc[p].itemId) + 1

\* C10 (as claimed): a link run in which exchangePublicToken returned ends
\* with the exchanged item, under its id and with its access token, in the
\* store, whatever getItem and getAccounts did afterwards.
C10_ExchangedItemStored ==
    \A p \in Procs :
        (pc[p] = "down" /\ exitCode[p] \in {0, 1} /\ loc[p].exchanged)
            => /\ GetItem(p, loc[p].itemId) # Null
               /\ GetItem(p, loc[p].itemId).accessToken = loc[p].accessToken

\* ==================================================== the claims, SpecLoad
\* C9 (as claimed): a store constructed on a file that is missing, empty or
\* holds anything but a JSON object does not throw and has no items.
C9_MalformedLoadsEmpty ==
    \A p \in Procs :
        (lastOp.op \in {"construct", "restart"} /\ lastOp.proc = p
            /\ file.kind # "object")
            => /\ pc[p] \in {"idle", "down"}
               /\ GetAllItems(p) = {}

\* ===================================================== the claims, SpecTwo
\* C7: last writer wins.  After a store call of one process has written,
\* the file is exactly that process's Map: whatever another process holds
\* that the writer does not is not in the file.
C7_LastWriterWins ==
    \A p \in Procs :
        (lastOp.proc = p /\ lastOp.op \in Mutators /\ lastOp.w = "ok")
            => /\ file = JSONStringify(items[p])
               /\ \A q \in Procs \ {p} : \A i \in DOMAIN items[q] :
                     GetItemIn(items[p], i) # items[q][i]
                        => GetItemIn(Load(file), i) # items[q][i]

C7_Witness ==
    /\ lastOp.proc = "p1" /\ lastOp.op = "saveItem" /\ lastOp.w = "ok"
    /\ lastOp.id = "i1"
    /\ pc["p1"] = "idle" /\ pc["p2"] = "idle"
    /\ "i2" \in DOMAIN items["p2"]
    /\ CursorOf(items["p2"], "i2") = 1 /\ committed["i2"] = 1
    /\ "i2" \notin DOMAIN Load(file)

\* ==================================================== the claims, SpecLink
\* The last run of process p was a `remove` that printed its success line.
RemoveSucceeded(p) ==
    /\ pc[p] = "down" /\ exitCode[p] = 0
    /\ lastOp.op = "deleteItem" /\ lastOp.proc = p

\* C11 (as claimed): once `remove` has reported success for an item, the
\* provider no longer knows the item's token, getItem on the id is absent in
\* the process, and it is absent in a store loaded from the file.
C11_RemoveDisconnects ==
    \A p \in Procs :
        RemoveSucceeded(p)
            => /\ lastOp.id \notin provider
               /\ GetItem(p, lastOp.id) = Null
               /\ GetItemIn(Load(file), lastOp.id) = Null

\* The last run of process p was a `link` that ran to its end.
LinkSucceeded(p) ==
    /\ pc[p] = "down" /\ exitCode[p] = 0
    /\ lastOp.op = "saveItem" /\ lastOp.proc = p

\* C12: the item a completed `link` run stored has status active, no
\* syncCursor and no lastSyncAt, in the process and, when the write went
\* through, in the file.
C12_LinkedItemFresh ==
    \A p \in Procs :
        LinkSucceeded(p)
            => /\ GetItem(p, lastOp.id) # Null
               /\ GetItem(p, lastOp.id).status = "active"
               /\ GetItem(p, lastOp.id).syncCursor = Undefined
               /\ GetItem(p, lastOp.id).lastSyncAt = Undefined
               /\ lastOp.w = "ok" =>
                     GetItemIn(Load(file), lastOp.id) = GetItem(p, lastOp.id)

C12_Witness ==
    \E p \in Procs :
        /\ LinkSucceeded(p) /\ lastOp.w = "ok"
        /\ loc[p].exchanged /\ lastOp.id = loc[p].itemId
        /\ ItemIds \subseteq DOMAIN Load(file)
        /\ GetItemIn(Load(file), lastOp.id).status = "active"

\* ================================================== the claims, SpecFields
\* A store call of process p returned in this step.
StoreCallReturned(p) ==
    /\ pc[p] = "idle" /\ lastOp'.proc = p
    /\ lastOp' # lastOp \/ items' # items \/ file' # file

\* C13 (as claimed): while an item stays in the store, no store call
\* changes the accessToken stored under its id.
C13_AccessTokenImmutable ==
    [][\A p \in Procs, i \in ItemIds :
          (pc[p] = "idle" /\ i \in DOMAIN items[p] /\ i \in DOMAIN items'[p])
              => items'[p][i].accessToken = items[p][i].accessToken]_vars

\* C15 (as claimed): while an item stays in the store, no store call
\* changes its createdAt.
C15_CreatedAtImmutable ==
    [][\A p \in Procs, i \in ItemIds :
          (pc[p] = "idle" /\ i \in DOMAIN items[p] /\ i \in DOMAIN items'[p])
              => items'[p][i].createdAt = items[p][i].createdAt]_vars

\* C16 (as claimed): after saveItem, updateItem, updateSyncCursor or
\* updateStatus has written an item's record, the record's updatedAt is the
\* time of the call, whatever updatedAt the caller passed.
C16_UpdatedAtIsCallTime ==
    [][\A p \in Procs :
          (/\ StoreCallReturned(p)
           /\ lastOp'.op \in {"saveItem"} \cup Updaters
           /\ lastOp'.id \in DOMAIN items'[p])
              => items'[p][lastOp'.id].updatedAt = clock]_vars

\* C18: updateSyncCursor(itemId, c) on an existing item leaves a record
\* whose syncCursor is c and whose fields other than syncCursor, lastSyncAt
\* and updatedAt are the ones it had.
C18_CursorUpdateFrame ==
    [][\A p \in Procs :
          (/\ StoreCallReturned(p)
           /\ lastOp'.op = "updateSyncCursor" /\ lastOp'.existed)
              => /\ lastOp'.id \in DOMAIN items'[p]
                 /\ items'[p][lastOp'.id].syncCursor = lastOp'.arg.syncCursor
                 /\ DOMAIN items'[p][lastOp'.id] = DOMAIN items[p][lastOp'.id]
                 /\ \A f \in DOMAIN items[p][lastOp'.id]
                               \ {"syncCursor", "lastSyncAt", "updatedAt"} :
                       items'[p][lastOp'.id][f] = items[p][lastOp'.id][f]]_vars

C18_Witness ==
    /\ lastOp.op = "updateSyncCursor" /\ lastOp.existed
    /\ pc[lastOp.proc] = "idle"
    /\ GetItem(lastOp.proc, lastOp.id) # Null
    /\ GetItem(lastOp.proc, lastOp.id).syncCursor = MaxPage
    /\ lastOp.arg.syncCursor = MaxPage
    /\ GetItem(lastOp.proc, lastOp.id).status = "error"
    /\ GetItem(lastOp.proc, lastOp.id).createdAt < clock
    /\ GetItem(lastOp.proc, lastOp.id).updatedAt = clock

\* C19 (as claimed): every updateSyncCursor call on an existing item leaves
\* lastSyncAt strictly greater than it was, two calls within one clock tick
\* included.
C19_LastSyncAtIncreases ==
    [][\A p \in Procs :
          (/\ StoreCallReturned(p)
           /\ lastOp'.op = "updateSyncCursor" /\ lastOp'.existed
           /\ lastOp'.id \in DOMAIN items'[p])
              => items'[p][lastOp'.id].lastSyncAt
                    > items[p][lastOp'.id].lastSyncAt]_vars

\* ===================================================== the claims, SpecIds
\* C14 (as claimed): every record of a running store has the itemId it is
\* stored under, so no two records of getAllItems() share an itemId.
C14_ItemIdUnique ==
    \A p \in Procs :
        pc[p] = "idle"
            => /\ \A k \in DOMAIN items[p] : items[p][k].itemId = k
               /\ \A k1, k2 \in DOMAIN items[p] :
                     items[p][k1].itemId = items[p][k2].itemId => k1 = k2

\* ========================================= the claims, SpecCli: lastSyncAt
\* C17 (as claimed): the lastSyncAt a running process holds for an item
\* changes only in an updateSyncCursor call that advances the item's cursor;
\* the reset of `sync --full` and a sync that fails leave it alone.
C17_LastSyncAtOnlyOnAdvance ==
    [][\A p \in Procs, i \in ItemIds :
          (/\ pc[p] \notin {"new", "down"}
           /\ i \in DOMAIN items[p] /\ i \in DOMAIN items'[p]
           /\ items'[p][i].lastSyncAt # items[p][i].lastSyncAt)
              => /\ lastOp'.op = "updateSyncCursor" /\ lastOp'.id = i
                 /\ CursorPos(items'[p], i) > CursorPos(items[p], i)]_vars

\* ============================================== the claims, Spec: no-ops
\* C20: updateItem, updateSyncCursor and updateStatus on an id the store
\* does not hold return normally and leave the Map and the file as they
\* were, with no record under the id.
C20_MissingIdNoOp ==
    [][\A p \in Procs :
          (/\ pc[p] = "idle" /\ lastOp' # lastOp
           /\ lastOp'.proc = p /\ lastOp'.op \in Updaters
           /\ ~lastOp'.existed)
              => /\ ~lastOp'.raised /\ pc'[p] = "idle"
                 /\ items'[p] = items[p]
                 /\ file' = file
                 /\ lastOp'.id \notin DOMAIN items'[p]]_vars

C20_Witness ==
    /\ lastOp.op = "updateSyncCursor" /\ ~lastOp.existed
    /\ pc[lastOp.proc] = "idle"
    /\ lastOp.id \notin DOMAIN items[lastOp.proc]
    /\ items[lastOp.proc] # EmptyMap
    /\ file # JSONStringify(items[lastOp.proc])

\* ============================================= the claims, Spec: deleteItem
\* C21: deleteItem(id) returns normally whether or not the id was stored,
\* getItem(id) is absent afterwards, and every other item keeps its record.
C21_DeleteIdempotent ==
    [][\A p \in Procs :
          (/\ pc[p] = "idle" /\ lastOp' # lastOp
           /\ lastOp'.proc = p /\ lastOp'.op = "deleteItem")
              => /\ ~lastOp'.raised /\ pc'[p] = "idle"
                 /\ GetItemIn(items'[p], lastOp'.id) = Null
                 /\ DOMAIN items'[p] = (DOMAIN items[p]) \ {lastOp'.id}
                 /\ \A j \in DOMAIN items'[p] : items'[p][j] = items[p][j]]_vars

C21_Witness ==
    /\ lastOp.op = "deleteItem" /\ ~lastOp.existed
    /\ pc[lastOp.proc] = "idle"
    /\ GetItem(lastOp.proc, lastOp.id) = Null
    /\ \E j \in DOMAIN items[lastOp.proc] :
          CursorOf(items[lastOp.proc], j) > EmptyCursor

\* ================================================== the claims, Spec: save
\* C26: after a mutating store call whose write went through, the file holds
\* the whole Map of the store, the changes of earlier calls whose write had
\* failed included.
C26_WriteHoldsWholeMap ==
    \A p \in Procs :
        (lastOp.proc = p /\ lastOp.op \in Mutators /\ lastOp.w = "ok")
            => /\ file.kind = "object"
               /\ file.data = items[p]
               /\ Load(file) = items[p]

C26_Witness ==
    /\ lastOp.op = "updateSyncCursor" /\ lastOp.w = "ok" /\ failures > 0
    /\ pc[lastOp.proc] = "idle"
    /\ ItemIds \subseteq DOMAIN Load(file)
    /\ \E j \in ItemIds \ {lastOp.id} :
          GetItemIn(Load(file), j).status = "error"

\* =============================================== the claims, SpecReadsLoad
\* The keys of Map m whose value has accessToken t.
TokenKeys(m, t) == {k \in DOMAIN m : FieldIs(m[k], "accessToken", t)}

\* C22 (as claimed): in every state of a running store, getItem of an id the
\* store does not hold and getItemByAccessToken of a token no item has
\* return null, and getItemsByUserId of a user without items returns an
\* empty collection; none of them throws.
C22_ReadsNeverRaise ==
    \A p \in Procs :
        pc[p] = "idle"
            => /\ \A i \in ItemIds \ DOMAIN items[p] : GetItem(p, i) = Null
               /\ \A t \in Tokens :
                     TokenKeys(items[p], t) = {}
                        => GetItemByAccessToken(items[p], t) = {Null}
               /\ \A u \in Users :
                     (\A k \in DOMAIN items[p] : ~FieldIs(items[p][k], "userId", u))
                        => GetItemsByUserId(items[p], u) = {}

C24_UnconfiguredIsFatal ==
    [][\A p \in Procs :
          loc'[p] = Unconfigured
              => /\ pc'[p] = "down" /\ exitCode'[p] = 1
                 /\ provider' = provider
                 /\ file' = file
                 /\ lastOp'.op \notin Mutators \cup {"gateway"}]_vars

C24_Witness ==
    \E p \in Procs :
        /\ loc[p] = Unconfigured /\ pc[p] = "down" /\ exitCode[p] = 1
        /\ lastOp.op = "restart" /\ lastOp.proc = p
        /\ items[p] # EmptyMap /\ provider # {}
        /\ file = JSONStringify(items[p])

\* Where the next step of an action calls the provider with the token of
\* the item named by --item-id, or deletes that item.
ItemCallPoints == {"item_fetch", "remove_provider", "remove_delete"}

\* C30: in status, remove, identity, auth, liabilities and holdings, no call
\* to the provider and no store call is reached unless --item-id names an
\* item of the store; a run that stops at the --item-id check or at the
\* lookup of an unknown id exits non-zero and changes nothing.
C30_ItemIdChecked ==
    [][\A p \in Procs :
          /\ pc'[p] \in ItemCallPoints
                => /\ loc'[p].itemId # ""
                   /\ GetItemIn(items'[p], loc'[p].itemId) # Null
          /\ (\/ /\ pc[p] = "idle" /\ pc'[p] = "down"
                 /\ exitCode'[p] # exitCode[p]
              \/ /\ pc[p] \in {"item_get", "remove_get"} /\ pc'[p] # pc[p]
                 /\ GetItem(p, loc[p].itemId) = Null)
                => /\ pc'[p] = "down" /\ exitCode'[p] # 0
                   /\ provider' = provider
                   /\ items' = items /\ file' = file
                   /\ lastOp' = lastOp]_vars

C30_Witness ==
    \E p \in Procs :
        /\ pc[p] = "down" /\ exitCode[p] = 1
        /\ loc[p] # Unconfigured
        /\ loc[p].itemId \in ItemIds /\ loc[p].accessToken = ""
        /\ GetItem(p, loc[p].itemId) = Null
        /\ items[p] # EmptyMap
        /\ lastOp.op = "restart" /\ lastOp.proc = p

\* ============================================ the claims, SpecLink: remove
\* A provider holding the items prov still accepts accessToken.
TokenValidAt(prov, accessToken) == \E i \in prov : TokenOf(i) = accessToken

\* C28: in `remove`, the store loses an item only in the deleteItem that
\* follows a removeItem call that returned; an id the store does not hold
\* ends the run before the provider is called; a removeItem call that throws
\* ends the run with status 1 and the Map and the file as they were.
C28_RemoveOrder ==
    [][\A p \in Procs :
          /\ (pc[p] \notin {"new", "down"} /\ DOMAIN items'[p] # DOMAIN items[p])
                => /\ pc[p] = "remove_delete" \/ lastOp'.op = "saveItem"
                   /\ pc[p] = "remove_delete" => ~TokenValidAt(provider, loc[p].accessToken)
          /\ (pc[p] = "remove_get" /\ pc'[p] # pc[p]
                /\ GetItem(p, loc[p].itemId) = Null)
                => pc'[p] = "down" /\ provider' = provider
          /\ (pc[p] = "remove_provider" /\ pc'[p] = "remove_delete")
                => /\ TokenValidAt(provider, loc[p].accessToken)
                   /\ ~TokenValidAt(provider', loc[p].accessToken)
                   /\ items' = items /\ file' = file
          /\ (pc[p] = "remove_provider" /\ pc'[p] = "down"
                /\ exitCode'[p] # exitCode[p])
                => /\ exitCode'[p] = 1
                   /\ provider' = provider
                   /\ items' = items /\ file' = file]_vars

C28_Witness ==
    \E p \in Procs :
        /\ pc[p] = "down" /\ exitCode[p] = 1
        /\ loc[p].itemId \in DOMAIN items[p]
        /\ loc[p].accessToken = items[p][loc[p].itemId].accessToken
        /\ TokenValidAt(provider, loc[p].accessToken)
        /\ ~loc[p].exchanged
        /\ GetItemIn(Load(file), loc[p].itemId) = items[p][loc[p].itemId]

\* =============================================== the claims, SpecLinkToken
\* What the claim says of a key that the call site or the configuration can
\* supply: present iff one of them supplies it, the call site's value first.
CallSiteWins(key, fromOptions, fromConfig) ==
    /\ key.present <=> (fromOptions # {} \/ fromConfig # {})
    /\ fromOptions # {} => key.value = fromOptions
    /\ (fromOptions = {} /\ fromConfig # {}) => key.value = fromConfig

\* C25: the request createLinkToken sends has the caller's products, country
\* codes and language, or [transactions], [US] and "en" where the caller
\* left them out, and webhook and redirect_uri as CallSiteWins says.
C25_LinkTokenDefaults ==
    \A p \in Procs :
        (lastOp.op = "createLinkToken" /\ lastOp.proc = p)
            => /\ lastOp.arg.products =
                     (IF loc[p].options.products = {}
                      THEN {<<"transactions">>} ELSE loc[p].options.products)
               /\ lastOp.arg.country_codes =
                     (IF loc[p].options.countryCodes = {}
                      THEN {<<"US">>} ELSE loc[p].options.countryCodes)
               /\ lastOp.arg.language =
                     (IF loc[p].options.language = {}
                      THEN {"en"} ELSE loc[p].options.language)
               /\ CallSiteWins(lastOp.arg.webhook, loc[p].options.webhookUrl,
                               loc[p].config.webhookUrl)
               /\ CallSiteWins(lastOp.arg.redirect_uri,
                               loc[p].options.redirectUri,
                               loc[p].config.redirectUri)

C25_Witness ==
    \E p \in Procs :
        /\ lastOp.op = "createLinkToken" /\ lastOp.proc = p
        /\ loc[p].options.products = {} /\ loc[p].options.language = {}
        /\ loc[p].options.webhookUrl = {"opt-hook"}
        /\ loc[p].config.webhookUrl = {"cfg-hook"}
        /\ loc[p].options.redirectUri = {}
        /\ loc[p].config.redirectUri = {"cfg-redirect"}
        /\ lastOp.arg.webhook.value = {"opt-hook"}
        /\ lastOp.arg.redirect_uri.value = {"cfg-redirect"}
        /\ lastOp.arg.products = {<<"transactions">>}

\* =================================================== the claims, SpecAsync
\* C27: while update calls on an existing item are in flight together on
\* one store, the item's record holds, for every field, the value of the
\* last of those calls that wrote the field: the cursor of the call that ran
\* last, and every field the other calls wrote that no later one did.
C27_InFlightUpdatesAtomic ==
    \A p \in Procs :
        pc[p] = "idle"
            => \A k \in DOMAIN Pending(p) :
                  Pending(p)[k].existed
                     => /\ Pending(p)[k].id \in DOMAIN items[p]
                        /\ \A f \in DOMAIN Pending(p)[k].arg :
                              (\A j \in DOMAIN Pending(p) :
                                  j > k => \/ Pending(p)[j].id # Pending(p)[k].id
                                           \/ f \notin DOMAIN Pending(p)[j].arg)
                                 => items[p][Pending(p)[k].id][f]
                                       = Pending(p)[k].arg[f]

C27_Witness ==
    \E p \in Procs :
        /\ pc[p] = "idle" /\ Len(Pending(p)) = 2
        /\ Pending(p)[1].op = "updateSyncCursor" /\ Pending(p)[1].existed
        /\ Pending(p)[1].arg.syncCursor = MaxPage
        /\ Pending(p)[2].op = "updateStatus" /\ Pending(p)[2].id = Pending(p)[1].id
        /\ Pending(p)[2].arg.status = "error"
        /\ GetItem(p, Pending(p)[1].id).syncCursor = MaxPage
        /\ GetItem(p, Pending(p)[1].id).status = "error"

\* ============================================== the claims, SpecSingleton
\* C29: a call of getFilePlaidItemStore returns the module's one instance.
\* It constructs a store, loading the file at the store's path, only when
\* there is no instance or when a path is passed that differs from the
\* instance's path; otherwise (no path, or the same path) it returns the
\* instance it had, with the Map it had.  The first call after
\* resetFilePlaidItemStore returns an instance no earlier call returned.
C29_OneProcessWideStore ==
    [][\A p \in Solo :
          (lastOp'.op = "getFilePlaidItemStore" /\ lastOp'.proc = p)
             => LET old == loc[p].defaultFileStore
                    new == loc'[p].defaultFileStore
                    filePath == lastOp'.arg
                IN  /\ new # Null
                    /\ loc'[p].returned = new
                    /\ IF old = Null \/ (filePath # {} /\ filePath # {old.filePath})
                       THEN /\ new.serial > loc[p].constructed
                            /\ filePath # {} => filePath = {new.filePath}
                            /\ filePath = {} => new.filePath = DefaultStorePath
                            /\ items'[p] = Load(FileAt(new.filePath))
                       ELSE /\ new = old
                            /\ items'[p] = items[p]
                    /\ loc[p].lastCall = "reset"
                          => new.serial > loc[p].constructed
      ]_vars

\* A call without a path returned the instance made for the other path, the
\* second instance of the process, as it was.
C29_Witness ==
    \E p \in Solo :
        /\ lastOp.op = "getFilePlaidItemStore" /\ lastOp.proc = p
        /\ lastOp.arg = {}
        /\ loc[p].returned = StoreInstance(OtherStorePath, 2)
        /\ loc[p].defaultFileStore = loc[p].returned
        /\ items[p] = Load(OtherFile)
        /\ Load(file) # items[p]

====
